---- MODULE Spec2Model ----
(***************************************************************************)
(* cocogitto, src/changelog.rs: the changelog renderer (Changelog) and the *)
(* changelog file writer (ChangelogWriter).                                *)
(*                                                                         *)
(* Strings are TLA+ strings, i.e. sequences of characters: Len, \o and     *)
(* SubSeq act on them as on Rust's String (all text here is ASCII, so a    *)
(* byte index is a character index).  Rust indices are 0-based, SubSeq is  *)
(* 1-based: the byte at Rust index i is SubSeq(s, i + 1, i + 1).           *)
(***************************************************************************)
EXTENDS Integers, Sequences, FiniteSets, TLC

VARIABLES
    table,      \* COMMITS_METADATA in its iteration order
    changelog,  \* the Changelog handed to the last call, as it was before the call
    md,         \* the String returned by the last Changelog::markdown call
    drained,    \* self.commits after the last Changelog::markdown call
    calls,      \* number of calls made so far
    file,       \* the file at ChangelogWriter.path
    before,     \* the file at ChangelogWriter.path before the last write() call
    origin,     \* the file at ChangelogWriter.path before the first write() call
    inhand,     \* changelog_content as read (or defaulted) by the last insert()
    mode,       \* ChangelogWriter.mode of the last write() call
    result,     \* "none" before any call, else "Ok" or "Err"
    err,        \* the error message of an Err result
    torn,       \* whether a write that failed after opening the file left it as it is
    start,      \* two-order experiment: the starting file content
    relA,       \* two-order experiment: the release written in Prepend mode
    relB,       \* two-order experiment: the release written in Append mode
    fileAB,     \* two-order experiment: the file, Prepend A first, then Append B
    fileBA,     \* two-order experiment: the file, Append B first, then Prepend A
    stepAB,     \* writes done on fileAB
    stepBA      \* writes done on fileBA

vars == <<table, changelog, md, drained, calls, file, before, origin, inhand,
          mode, result, err, torn, start, relA, relB, fileAB, fileBA, stepAB, stepBA>>

renderVars == <<table, changelog, md, drained, calls>>
writerVars == <<file, before, origin, inhand, mode, result, err, torn>>
orderVars  == <<start, relA, relB, fileAB, fileBA, stepAB, stepBA>>

----------------------------------------------------------------------------
(* Bounds of the model *)

\* longest commit list of a descriptor handed to Changelog::markdown alone
MaxCommits == 3
\* number of write() calls on the one changelog file
MaxWrites == 2

----------------------------------------------------------------------------
(* String primitives of the Rust standard library, as the code uses them *)

\* the separator literal "- - -" of lines 43, 44, 51 and 115
SEPARATOR == "- - -"

\* `idx + 5`: the separator's length in bytes
SepLen == 5

\* Option<usize>::None of find / rfind
NoIdx == -1

\* the 0-based indices at which pat occurs in s
Occurrences(s, pat) ==
    { i \in 0..(Len(s) - Len(pat)) : SubSeq(s, i + 1, i + Len(pat)) = pat }

Contains(s, pat) == Occurrences(s, pat) # {}

Min(S) == CHOOSE x \in S : \A y \in S : x <= y
Max(S) == CHOOSE x \in S : \A y \in S : x >= y

\* str::find: the first occurrence
find(s, pat) == IF Occurrences(s, pat) = {} THEN NoIdx ELSE Min(Occurrences(s, pat))

\* str::rfind: the last occurrence
rfind(s, pat) == IF Occurrences(s, pat) = {} THEN NoIdx ELSE Max(Occurrences(s, pat))

\* String::insert_str(idx, t)
insert_str(s, idx, t) == SubSeq(s, 1, idx) \o t \o SubSeq(s, idx + 1, Len(s))

----------------------------------------------------------------------------
(* The collaborators of changelog.rs: commit records and the metadata table *)

\* `&self.to.to_string()[0..6]`: the short form of an identifier
ShortLen == 6

OidFrom == "5375e15770ddf8821d0c1ad393d315e243014c15"
OidTo   == "35085f20c5293fc8830e4e44a9bb487f98734f73"

\* Option<String>::None of tag_name
NoTag == [some |-> FALSE, value |-> ""]
Tag(s) == [some |-> TRUE, value |-> s]

\* the entries of COMMITS_METADATA: commit type -> changelog_title
MetadataEntries ==
    { [commit_type |-> "Feature", changelog_title |-> "Features"],
      [commit_type |-> "BugFix",  changelog_title |-> "Bug Fixes"],
      [commit_type |-> "Test",    changelog_title |-> "Tests"] }

\* the orders in which COMMITS_METADATA.iter() may visit its entries
TableOrders ==
    { t \in [1..Cardinality(MetadataEntries) -> MetadataEntries] :
        \A i, j \in DOMAIN t : i # j => t[i] # t[j] }

DefaultTable ==
    << [commit_type |-> "Feature", changelog_title |-> "Features"],
       [commit_type |-> "BugFix",  changelog_title |-> "Bug Fixes"],
       [commit_type |-> "Test",    changelog_title |-> "Tests"] >>

TableTypes(tbl) == { tbl[i].commit_type : i \in DOMAIN tbl }

Commit(oid, ty, description, author) ==
    [oid |-> oid, commit_type |-> ty, description |-> description, author |-> author]

\* Commit::to_markdown(false): one line of commit markdown
to_markdown(commit) ==
    "[" \o SubSeq(commit.oid, 1, ShortLen) \o "]"
        \o "(https://github.com/oknozor/cocogitto/commit/" \o commit.oid \o ")"
        \o " - " \o commit.description \o " - " \o commit.author \o "\n"

----------------------------------------------------------------------------
(* Changelog::markdown *)

RECURSIVE ConcatMarkdown(_)
\* commits.iter().for_each(|commit| out.push_str(&commit.to_markdown(colored)))
ConcatMarkdown(commits) ==
    IF commits = <<>> THEN ""
    ELSE to_markdown(Head(commits)) \o ConcatMarkdown(Tail(commits))

\* mutant of drain_filter_taken: the drain stops at the first match
drain_filter_first(commits, commit_type) ==
    LET taken == SelectSeq(commits, LAMBDA c : c.commit_type = commit_type)
    IN  IF taken = <<>> THEN <<>> ELSE <<Head(taken)>>

\* drain_filter(|commit| &commit.message.commit_type == commit_type).collect()
drain_filter_taken(commits, commit_type) ==
    SelectSeq(commits, LAMBDA c : c.commit_type = commit_type)

\* what drain_filter leaves in self.commits
drain_filter_left(commits, commit_type) ==
    SelectSeq(commits, LAMBDA c : c.commit_type # commit_type)

\* mutant of add_commit_section: the heading is pushed without the is_empty test
add_commit_section_always(st, entry) ==
    LET commits == drain_filter_taken(st.commits, entry.commit_type)
    IN  [ commits |-> drain_filter_left(st.commits, entry.commit_type),
          out     |-> st.out \o "\n### " \o entry.changelog_title \o "\n\n"
                             \o ConcatMarkdown(commits) ]

\* the closure add_commit_section, on the state st = [commits, out] it captures
add_commit_section(st, entry) ==
    LET commits == drain_filter_taken(st.commits, entry.commit_type)
    IN  [ commits |-> drain_filter_left(st.commits, entry.commit_type),
          out     |-> IF commits # <<>>
                      THEN st.out \o "\n### " \o entry.changelog_title \o "\n\n"
                                  \o ConcatMarkdown(commits)
                      ELSE st.out ]

RECURSIVE for_each_section(_, _, _)
\* COMMITS_METADATA.iter().map(..).for_each(add_commit_section)
for_each_section(st, tbl, i) ==
    IF i > Len(tbl) THEN st
    ELSE for_each_section(add_commit_section(st, tbl[i]), tbl, i + 1)

version_title(c) ==
    IF c.tag_name.some THEN c.tag_name.value
    ELSE SubSeq(c.from, 1, ShortLen) \o ".." \o SubSeq(c.to, 1, ShortLen)

\* Changelog::markdown(false): [out |-> the String returned, commits |-> self.commits after]
markdown(c, tbl) ==
    for_each_section(
        [ commits |-> c.commits,
          out     |-> "\n## " \o version_title(c) \o " - " \o c.date \o "\n\n" ],
        tbl, 1)

----------------------------------------------------------------------------
(* Changelog::default_header, default_footer, changelog_template *)

default_header ==
    "# Changelog" \o "\n"
        \o "All notable changes to this project will be documented in this file. "
        \o "See " \o "[conventional commits]"
        \o "(https://www.conventionalcommits.org/) for commit guidelines.\n\n- - -\n"

default_footer ==
    "\nThis changelog was generated by [cocogitto](https://github.com/oknozor/cocogitto)."

changelog_template == default_header \o default_footer

----------------------------------------------------------------------------
(* The file system, as ChangelogWriter sees it *)

\* ChangelogWriter.path
Path == "CHANGELOG.md"

\* no file at the path: fs::read_to_string fails with NotFound
AbsentFile == [kind |-> "absent", content |-> ""]

\* a file whose bytes are not valid UTF-8: fs::read_to_string fails with InvalidData
UndecodableFile == [kind |-> "undecodable", content |-> ""]

\* a file of these bytes that may be written but not read (mode 0200):
\* fs::read_to_string fails with PermissionDenied
NoPermFile(content) == [kind |-> "noperm", content |-> content]

\* a file fs::read_to_string returns as `content`
TextFile(content) == [kind |-> "text", content |-> content]

\* fs::read_to_string(&self.path)
read_to_string(f) ==
    IF f.kind = "text" THEN [ok |-> TRUE, value |-> f.content]
    ELSE [ok |-> FALSE, value |-> ""]

\* what the operating system may do with one fs::write: write it all, refuse
\* to open the file, or fail after the file was opened and truncated (disk
\* full, size limit) with only a prefix written; of the prefixes, the empty
\* one and the first half stand for all
WriteOutcomes == {"whole", "refused", "cut_empty", "cut_half"}

\* the file after fs::write has put `content` into f: the bytes are replaced, the
\* permissions of an existing file stay
Written(f, content) ==
    [kind |-> IF f.kind = "noperm" THEN "noperm" ELSE "text", content |-> content]

\* fs::write(&self.path, content) when the operating system does `how`:
\* the file afterwards, whether Ok was returned, the io::Error's text, and what
\* became of the file (wrote)
fs_write(f, content, how) ==
    CASE how = "whole" ->
            [file |-> Written(f, content), ok |-> TRUE, err |-> "", wrote |-> "whole"]
      [] how = "refused" ->
            [file |-> f, ok |-> FALSE, err |-> "Permission denied (os error 13)",
             wrote |-> "none"]
      [] how = "cut_empty" ->
            [file |-> Written(f, ""), ok |-> FALSE,
             err |-> "No space left on device (os error 28)", wrote |-> "part"]
      [] how = "cut_half" ->
            [file |-> Written(f, SubSeq(content, 1, Len(content) \div 2)), ok |-> FALSE,
             err |-> "No space left on device (os error 28)", wrote |-> "part"]

----------------------------------------------------------------------------
(* ChangelogWriter *)

\* the outcome of a write() call that got as far as fs::write (w is what
\* fs_write gave)
Outcome(w, read, out, commits) ==
    [file |-> w.file, inhand |-> read, md |-> out, drained |-> commits,
     result |-> IF w.ok THEN "Ok" ELSE "Err", err |-> w.err, wrote |-> w.wrote]

\* fs::read_to_string(&self.path).unwrap_or_else(|_err| Changelog::changelog_template())
read_or_template(f) ==
    IF read_to_string(f).ok THEN read_to_string(f).value ELSE changelog_template

\* mutant of separator_idx: rfind in both modes
separator_idx_last(m, changelog_content) == rfind(changelog_content, SEPARATOR)

\* mutant of separator_idx: find in both modes
separator_idx_first(m, changelog_content) == find(changelog_content, SEPARATOR)

\* match self.mode { Append => rfind, Prepend => find }
separator_idx(m, changelog_content) ==
    IF m = "Append" THEN rfind(changelog_content, SEPARATOR)
    ELSE find(changelog_content, SEPARATOR)

\* mutant of splice: the second insert_str call is left out
splice_without_separator(changelog_content, idx, markdown_changelog) ==
    insert_str(changelog_content, idx + SepLen, markdown_changelog)

\* the two insert_str calls of insert()
splice(changelog_content, idx, markdown_changelog) ==
    insert_str(
        insert_str(changelog_content, idx + SepLen, markdown_changelog),
        idx + SepLen + Len(markdown_changelog),
        "\n- - -")

\* mutant of insert: without a separator the fragment goes to the end of the file
insert_at_end_when_missing(f, m, c, tbl, how) ==
    LET changelog_content == read_or_template(f)
        idx == separator_idx(m, changelog_content)
        rendered == markdown(c, tbl)
    IN  IF idx # NoIdx
        THEN Outcome(fs_write(f, splice(changelog_content, idx, rendered.out), how),
                     changelog_content, rendered.out, rendered.commits)
        ELSE Outcome(fs_write(f, changelog_content \o rendered.out, how),
                     changelog_content, rendered.out, rendered.commits)

\* ChangelogWriter::insert
insert(f, m, c, tbl, how) ==
    LET changelog_content == read_or_template(f)
        idx == separator_idx(m, changelog_content)
        rendered == markdown(c, tbl)
    IN  IF idx # NoIdx
        THEN Outcome(fs_write(f, splice(changelog_content, idx, rendered.out), how),
                     changelog_content, rendered.out, rendered.commits)
        ELSE [file |-> f, inhand |-> changelog_content, md |-> "",
              drained |-> c.commits, result |-> "Err",
              err |-> "Cannot find default separator '- - -' in " \o Path,
              wrote |-> "none"]

\* mutant of replace: the fragment is put on top of what the file holds
replace_onto_existing(f, m, c, tbl, how) ==
    LET rendered == markdown(c, tbl)
        content == default_header \o rendered.out \o read_to_string(f).value
                       \o default_footer
    IN  Outcome(fs_write(f, content, how), "", rendered.out, rendered.commits)

\* ChangelogWriter::replace
replace(f, m, c, tbl, how) ==
    LET rendered == markdown(c, tbl)
        content == default_header \o rendered.out \o default_footer
    IN  Outcome(fs_write(f, content, how), "", rendered.out, rendered.commits)

\* ChangelogWriter::write
write(f, m, c, tbl, how) ==
    IF m \in {"Append", "Prepend"} THEN insert(f, m, c, tbl, how)
    ELSE replace(f, m, c, tbl, how)

----------------------------------------------------------------------------
(* Inputs *)

Feature1 == Commit(OidFrom, "Feature", "this is a commit message", "coco")
Feature2 == Commit(OidFrom, "Feature", "this is an other commit message", "cogi")
BugFix1  == Commit(OidTo, "BugFix", "keep - - - in the summary", "cogi")
Test1    == Commit(OidTo, "Test", "cover the writer", "coco")
\* a commit whose type COMMITS_METADATA has no entry for
Custom1  == Commit(OidTo, "Custom(wip)", "work in progress", "coco")

CommitPool == {Feature1, Feature2, BugFix1, Test1, Custom1}

RECURSIVE SeqsUpTo(_, _)
SeqsUpTo(S, n) ==
    IF n = 0 THEN { <<>> }
    ELSE SeqsUpTo(S, n - 1)
            \cup { Append(s, x) : s \in { t \in SeqsUpTo(S, n - 1) : Len(t) = n - 1 }, x \in S }

Descriptor(tag, commits) ==
    [from |-> OidFrom, to |-> OidTo, date |-> "2020-09-10",
     commits |-> commits, tag_name |-> tag]

\* the descriptors handed to Changelog::markdown alone
Descriptors ==
    { Descriptor(tag, commits) :
        tag \in {NoTag, Tag("1.0.0")}, commits \in SeqsUpTo(CommitPool, MaxCommits) }

\* the releases handed to ChangelogWriter
Releases ==
    { Descriptor(NoTag, <<Feature1>>),
      Descriptor(Tag("0.2.0"), <<Test1, Feature2>>),
      Descriptor(Tag("0.3.0"), <<BugFix1>>) }

\* a file someone wrote that has no separator
UnrelatedText == "# Notes\nnothing to see - yet\n"

\* a hand-edited changelog: separators that overlap, and another further down
HandEdited ==
    "# Changelog\n\n- - - - -\n\n## 0.1.0 - 2020-09-01\n\nfirst notes\n\n- - -\nthe end\n"

\* the files that may be at the path before the first write() call
InitialFiles ==
    { AbsentFile, UndecodableFile, NoPermFile(UnrelatedText),
      TextFile(UnrelatedText), TextFile(HandEdited) }

----------------------------------------------------------------------------
(* The writer: a sequence of write() calls on the one file *)

NoOrder ==
    /\ start = "" /\ relA = Descriptor(NoTag, <<>>) /\ relB = Descriptor(NoTag, <<>>)
    /\ fileAB = AbsentFile /\ fileBA = AbsentFile /\ stepAB = 0 /\ stepBA = 0

NoWriter ==
    /\ file = AbsentFile /\ before = AbsentFile /\ origin = AbsentFile
    /\ inhand = "" /\ mode = "none" /\ result = "none" /\ err = "" /\ torn = FALSE

Init ==
    /\ table = DefaultTable
    /\ changelog = Descriptor(NoTag, <<>>)
    /\ md = "" /\ drained = <<>> /\ calls = 0
    /\ file \in InitialFiles
    /\ before = file /\ origin = file
    /\ inhand = "" /\ mode = "none" /\ result = "none" /\ err = "" /\ torn = FALSE
    /\ NoOrder

\* one ChangelogWriter { changelog: c, path, mode: m }.write()
DoWrite(m) ==
    /\ calls < MaxWrites
    /\ \E c \in Releases, how \in WriteOutcomes :
        \E r \in { write(file, m, c, table, how) } :
            /\ file' = r.file
            /\ torn' = CASE r.wrote = "part"  -> TRUE
                        [] r.wrote = "whole" -> FALSE
                        [] r.wrote = "none"  -> torn
            /\ inhand' = r.inhand
            /\ md' = r.md
            /\ drained' = r.drained
            /\ result' = r.result
            /\ err' = r.err
            /\ changelog' = c
    /\ before' = file
    /\ mode' = m
    /\ calls' = calls + 1
    /\ UNCHANGED <<table, origin>>
    /\ UNCHANGED orderVars

WriteReplace == DoWrite("Replace")
WritePrepend == DoWrite("Prepend")
WriteAppend  == DoWrite("Append")

Next == WriteReplace \/ WritePrepend \/ WriteAppend

Spec == Init /\ [][Next]_vars

----------------------------------------------------------------------------
(* The renderer alone: one Changelog::markdown call on a descriptor *)

InitRender ==
    /\ table \in TableOrders
    /\ changelog \in Descriptors
    /\ md = "" /\ drained = changelog.commits /\ calls = 0
    /\ NoWriter
    /\ NoOrder

Render ==
    /\ calls = 0
    /\ md' = markdown(changelog, table).out
    /\ drained' = markdown(changelog, table).commits
    /\ calls' = 1
    /\ UNCHANGED <<table, changelog>>
    /\ UNCHANGED writerVars
    /\ UNCHANGED orderVars

NextRender == Render

SpecRender == InitRender /\ [][NextRender]_vars

----------------------------------------------------------------------------
(* Two orders of the same two writes, on two copies of the same file *)

\* what Replace writes for a release
Replaced(c) == replace(AbsentFile, "Replace", c, DefaultTable, "whole").file.content

\* starting contents that hold a separator
StartContents ==
    { changelog_template, HandEdited, Replaced(Descriptor(NoTag, <<Feature1>>)),
      Replaced(Descriptor(Tag("0.3.0"), <<BugFix1>>)) }

InitOrder ==
    /\ table = DefaultTable
    /\ changelog = Descriptor(NoTag, <<>>)
    /\ md = "" /\ drained = <<>> /\ calls = 0
    /\ NoWriter
    /\ start \in StartContents
    /\ relA \in Releases /\ relB \in Releases
    /\ fileAB = TextFile(start) /\ fileBA = TextFile(start)
    /\ stepAB = 0 /\ stepBA = 0

\* the next write of the order Prepend A, Append B
StepAB ==
    /\ stepAB < 2
    /\ fileAB' = IF stepAB = 0
                 THEN write(fileAB, "Prepend", relA, table, "whole").file
                 ELSE write(fileAB, "Append", relB, table, "whole").file
    /\ stepAB' = stepAB + 1
    /\ UNCHANGED <<start, relA, relB, fileBA, stepBA>>
    /\ UNCHANGED renderVars
    /\ UNCHANGED writerVars

\* the next write of the order Append B, Prepend A
StepBA ==
    /\ stepBA < 2
    /\ fileBA' = IF stepBA = 0
                 THEN write(fileBA, "Append", relB, table, "whole").file
                 ELSE write(fileBA, "Prepend", relA, table, "whole").file
    /\ stepBA' = stepBA + 1
    /\ UNCHANGED <<start, relA, relB, fileAB, stepAB>>
    /\ UNCHANGED renderVars
    /\ UNCHANGED writerVars

NextOrder == StepAB \/ StepBA

SpecOrder == InitOrder /\ [][NextOrder]_vars

----------------------------------------------------------------------------
(* Reading a rendered fragment back: its lines, headings and commit lines *)

\* 1-based positions at which a line of s starts
LineStarts(s) ==
    { p \in 1..Len(s) : p = 1 \/ SubSeq(s, p - 1, p - 1) = "\n" }

\* the line of s that starts at p, without its line break
LineAt(s, p) ==
    LET ends == { q \in p..Len(s) : SubSeq(s, q, q) = "\n" }
    IN  SubSeq(s, p, IF ends = {} THEN Len(s) ELSE Min(ends) - 1)

StartsWith(s, p, prefix) ==
    /\ p + Len(prefix) - 1 <= Len(s)
    /\ SubSeq(s, p, p + Len(prefix) - 1) = prefix

\* where the "### <title>" lines of s start
HeadingStarts(s) == { p \in LineStarts(s) : StartsWith(s, p, "### ") }

\* where the commit lines of s start
CommitLineStarts(s) == { p \in LineStarts(s) : StartsWith(s, p, "[") }

RECURSIVE Ascending(_)
Ascending(S) == IF S = {} THEN <<>> ELSE <<Min(S)>> \o Ascending(S \ {Min(S)})

TitleAt(s, p) == SubSeq(LineAt(s, p), Len("### ") + 1, Len(LineAt(s, p)))

\* the titles of the section headings of s, top to bottom
SectionTitles(s) ==
    LET hs == Ascending(HeadingStarts(s))
    IN  [ i \in 1..Len(hs) |-> TitleAt(s, hs[i]) ]

\* the commit lines of s that stand under a heading titled `title`, top to bottom
LinesUnder(s, title) ==
    LET under == { p \in CommitLineStarts(s) :
                     /\ { h \in HeadingStarts(s) : h < p } # {}
                     /\ TitleAt(s, Max({ h \in HeadingStarts(s) : h < p })) = title }
        ps == Ascending(under)
    IN  [ i \in 1..Len(ps) |-> LineAt(s, ps[i]) ]

\* the line a commit is rendered as, without its line break
CommitLine(commit) == SubSeq(to_markdown(commit), 1, Len(to_markdown(commit)) - 1)

CommitsOfType(commits, ty) == SelectSeq(commits, LAMBDA c : c.commit_type = ty)

Rendered == calls = 1

AllTypesKnown(c, tbl) ==
    \A i \in DOMAIN c.commits : c.commits[i].commit_type \in TableTypes(tbl)

----------------------------------------------------------------------------
(* Claims about Changelog::markdown, under SpecRender *)

\* C1: when every commit's type is in the metadata table, the rendered
\* fragment holds one commit line per input commit, and the commit lines under
\* the section of a type are the input commits of that type in input order.
C1_PartitionTotalDisjointOrdered ==
    (Rendered /\ AllTypesKnown(changelog, table)) =>
        /\ Cardinality(CommitLineStarts(md)) = Len(changelog.commits)
        /\ \A k \in DOMAIN table :
            LET own == CommitsOfType(changelog.commits, table[k].commit_type)
            IN  LinesUnder(md, table[k].changelog_title)
                    = [ i \in 1..Len(own) |-> CommitLine(own[i]) ]

\* C1 witness: two Feature commits with a BugFix commit between them, rendered
\* by a table that visits BugFix first.
C1_Witness ==
    /\ Rendered
    /\ changelog.commits = <<Feature1, BugFix1, Feature2>>
    /\ table[1].commit_type = "BugFix"
    /\ Len(LinesUnder(md, "Features")) = 2

\* C2: the section headings of the rendered fragment are the titles of the
\* table's types that have at least one commit, in the table's iteration order;
\* an empty commit list renders the release heading alone.
C2_HeadingsFollowTable ==
    Rendered =>
        LET used == SelectSeq(table,
                        LAMBDA e : \E i \in DOMAIN changelog.commits :
                                       changelog.commits[i].commit_type = e.commit_type)
        IN  /\ SectionTitles(md) = [ i \in 1..Len(used) |-> used[i].changelog_title ]
            /\ StartsWith(md, 1, "\n## " \o version_title(changelog) \o " - ")
            /\ changelog.commits = <<>> =>
                   md = "\n## " \o version_title(changelog) \o " - "
                               \o changelog.date \o "\n\n"

\* C2 witness: a Test commit before a Feature commit, rendered by a table that
\* visits Feature before Test and BugFix (no commit) between them.
C2_Witness ==
    /\ Rendered
    /\ changelog.commits = <<Test1, Feature1>>
    /\ table = DefaultTable
    /\ SectionTitles(md) = <<"Features", "Tests">>

\* C7: Changelog::markdown returns no fragment from which an input commit is
\* missing: a commit whose type the table lacks makes the rendering fail.
C7_UnknownTypeFailsLoudly ==
    Rendered =>
        \A i \in DOMAIN changelog.commits :
            Contains(md, to_markdown(changelog.commits[i]))

----------------------------------------------------------------------------
(* Claims about ChangelogWriter::write, under Spec *)

Called == calls > 0

IsSepAt(s, i) == StartsWith(s, i + 1, SEPARATOR)

\* s with t put in right after the separator that starts at 0-based index i
PutAfterSep(s, i, t) ==
    SubSeq(s, 1, i + Len(SEPARATOR)) \o t \o SubSeq(s, i + Len(SEPARATOR) + 1, Len(s))

\* the part of s after the separator that starts at 0-based index i
AfterSep(s, i) == SubSeq(s, i + Len(SEPARATOR) + 1, Len(s))

MissingSeparatorError == Contains(err, "Cannot find default separator")

\* the default header up to and including its separator
HeaderToSeparator == SubSeq(default_header, 1, Len(default_header) - 1)

\* C3: a successful Prepend leaves the content in hand unchanged but for the
\* fragment and a fresh separator put in right after the first separator; on a
\* file only this tool wrote the fragment stands right below the header's
\* separator, above everything the file held.
C3_PrependAfterFirstSeparator ==
    (Called /\ mode = "Prepend" /\ result = "Ok") =>
        /\ before.kind = "text" => inhand = before.content
        /\ \E i \in 0..Len(inhand) :
            /\ IsSepAt(inhand, i)
            /\ \A j \in 0..(i - 1) : ~IsSepAt(inhand, j)
            /\ file.content = PutAfterSep(inhand, i, md \o "\n" \o SEPARATOR)
        /\ origin = AbsentFile =>
            /\ StartsWith(file.content, 1, HeaderToSeparator \o md \o "\n" \o SEPARATOR)
            /\ AfterSep(inhand, Len(HeaderToSeparator) - Len(SEPARATOR))
                 = SubSeq(file.content,
                          Len(HeaderToSeparator \o md \o "\n" \o SEPARATOR) + 1,
                          Len(file.content))

\* C3 witness: a Prepend on a file this tool wrote, which holds an earlier
\* release and more than one separator.
C3_Witness ==
    /\ Called /\ mode = "Prepend" /\ result = "Ok"
    /\ origin = AbsentFile /\ before.kind = "text"
    /\ Cardinality(Occurrences(inhand, SEPARATOR)) >= 2
    /\ Contains(inhand, "\n## ")

\* C4: a successful Append on a file only this tool wrote puts the fragment
\* and a fresh separator right after the last separator, and no earlier
\* release's content stands below the appended one.
C4_AppendBelowAllPriorReleases ==
    (Called /\ mode = "Append" /\ result = "Ok" /\ origin = AbsentFile) =>
        \E j \in 0..Len(inhand) :
            /\ IsSepAt(inhand, j)
            /\ \A k \in (j + 1)..Len(inhand) : ~IsSepAt(inhand, k)
            /\ file.content = PutAfterSep(inhand, j, md \o "\n" \o SEPARATOR)
            /\ ~Contains(AfterSep(inhand, j), "\n## ")

\* C5: Prepend or Append on content without a separator returns an error that
\* names the separator and the path, and the file is what it was.
C5_MissingSeparatorNoWrite ==
    (Called /\ mode \in {"Prepend", "Append"} /\ ~Contains(inhand, SEPARATOR)) =>
        /\ result = "Err"
        /\ Contains(err, SEPARATOR)
        /\ Contains(err, Path)
        /\ file = before

\* C5 witness: a Prepend on an existing file without a separator has failed.
C5_Witness ==
    /\ Called /\ mode = "Prepend"
    /\ before = TextFile(UnrelatedText)
    /\ MissingSeparatorError

\* C6: Prepend or Append on a file that exists but cannot be read returns an
\* error and leaves the file as it was.
C6_ReadFailureSurfaced ==
    (Called /\ mode \in {"Prepend", "Append"}
            /\ before.kind \in {"undecodable", "noperm"}) =>
        /\ result = "Err"
        /\ file = before

\* C9: a successful Replace writes default header + fragment + default footer,
\* the same whatever the file was before; Replace never ends in the
\* missing-separator error.
C9_ReplaceIgnoresPriorContent ==
    (Called /\ mode = "Replace") =>
        /\ ~MissingSeparatorError
        /\ result = "Ok" =>
            /\ file.content = default_header \o md \o default_footer
            /\ md = markdown(changelog, table).out
            /\ \A f \in InitialFiles \cup {TextFile(changelog_template)} :
                   write(f, "Replace", changelog, table, "whole").file.content
                       = file.content

\* C9 witness: a Replace over an existing file of unrelated content.
C9_Witness ==
    /\ Called /\ mode = "Replace" /\ result = "Ok"
    /\ before = TextFile(UnrelatedText)

\* C10: from an absent file on, the file holds a separator after every
\* successful write and no Prepend or Append ends in the missing-separator
\* error; a successful Prepend or Append of a fragment without a separator adds
\* exactly one separator.
C10_SeparatorKeptAlways ==
    /\ origin = AbsentFile =>
        /\ (Called /\ result = "Ok") => Contains(file.content, SEPARATOR)
        /\ ~MissingSeparatorError
    /\ (Called /\ mode \in {"Prepend", "Append"} /\ result = "Ok"
            /\ ~Contains(md, SEPARATOR)) =>
        Cardinality(Occurrences(file.content, SEPARATOR))
            = Cardinality(Occurrences(inhand, SEPARATOR)) + 1

\* What does hold from an absent file on: a separator is in the file after
\* every successful write, exactly one is added by a Prepend or Append of a
\* fragment without one, and the missing-separator error is met only on a
\* file that a write failing after the open has left cut short.
SeparatorKeptUnlessTorn ==
    /\ origin = AbsentFile =>
        /\ (Called /\ result = "Ok") =>
               (file.kind = "text" /\ Contains(file.content, SEPARATOR))
        /\ (file.kind = "text" /\ ~torn) => Contains(file.content, SEPARATOR)
        /\ MissingSeparatorError => (torn /\ file = before)
    /\ (Called /\ mode \in {"Prepend", "Append"} /\ result = "Ok"
            /\ ~Contains(md, SEPARATOR)) =>
        Cardinality(Occurrences(file.content, SEPARATOR))
            = Cardinality(Occurrences(inhand, SEPARATOR)) + 1

----------------------------------------------------------------------------
(* Claims about the order of a Prepend and an Append, under SpecOrder *)

BothOrdersDone == stepAB = 2 /\ stepBA = 2

\* C8 as claimed: Prepend A then Append B ends in a different file than
\* Append B then Prepend A.
C8_OrdersDiffer ==
    (BothOrdersDone /\ relA # relB) => fileAB # fileBA

\* C8 as amended: Prepend A then Append B ends in the same file as Append B
\* then Prepend A.
C8_OrdersAgree ==
    BothOrdersDone => (fileAB.kind = "text" /\ fileAB = fileBA)

\* C8 witness: both orders done on a hand-edited file, with two different
\* releases, both of which are in the file.
C8_Witness ==
    /\ BothOrdersDone /\ relA # relB /\ start = HandEdited
    /\ Contains(fileAB.content, markdown(relA, table).out)
    /\ Contains(fileBA.content, markdown(relB, table).out)

====
